---------------------------- MODULE Spec2Model ----------------------------
(***************************************************************************)
(* Model of the weekly backtest of ai_financial_advisor:                   *)
(*   backtest_strategy.py  StrategyBacktester (cache_historical_data,      *)
(*                         get_data_for_date, run_strategy_analysis,       *)
(*                         execute_trade, run_backtest)                    *)
(*   src/agents/cached_tools.py  DataCache.set_csv_data / get_csv_data,    *)
(*                         setup_cache_for_backtest                        *)
(*   src/analysis/signals.py     generate_rule_based_signal                *)
(*   src/analysis/risk.py        compute_risk_metrics                      *)
(*                                                                         *)
(* Time is counted in ticks, TicksPerDay ticks to a day; a daily bar is    *)
(* stamped at the first tick of its day while datetime.now() may fall on   *)
(* any tick.  Amounts of money are floats with whole-number values, and    *)
(* every float operation rounds to MantissaBits significant bits.          *)
(***************************************************************************)
EXTENDS Integers, Sequences, FiniteSets, TLC

VARIABLES
    pc,                  \* position of run_backtest / of the trade driver
    weeks,               \* argument of run_backtest
    now,                 \* datetime.now() taken at the start of run_backtest
    feed,                \* what polygon_client.fetch_ohlcv would return
    initial_capital,     \* self.initial_capital
    portfolio,           \* self.portfolio
    trades,              \* self.trades
    performance_history, \* self.performance_history
    data_cache,          \* self.data_cache: the keys that map to the cache file
    cache_csv,           \* content of the file backtest_cache_<key>.csv
    slice_csv,           \* content of the files backtest_<ticker>_<date>.csv
    csv_cache,           \* _data_cache.csv_cache[ticker]['csv_path']
    price_data,          \* local price_data of run_backtest
    current_date,        \* local current_date of run_backtest
    week_count,          \* local week_count of run_backtest
    results,             \* the dictionary run_backtest returns
    call,                \* the latest execute_trade call and the state it found
    advice,              \* how the latest simulated period got its recommendation
    ohlcv_fetches,       \* requests sent for price history (fetch_ohlcv)
    news_fetches,        \* requests sent for news (fetch_and_cache_historical_news)
    ind,                 \* the snapshot compute_all_indicators hands to the signal rule
    signal_result,       \* what generate_rule_based_signal returns
    close_prices,        \* the Close column handed to compute_risk_metrics
    risk_result,         \* what compute_risk_metrics returns or raises
    last_two,            \* the previous and the latest row of the indicator table
    events,              \* the events compute_all_indicators reports
    csv_file,            \* the price table on disk that read_prices is pointed at
    read_result,         \* what read_prices returns or raises
    news_cache,          \* _data_cache.news_cache, in insertion order
    news_request,        \* the arguments of the latest get_historical_news call
    news_result,         \* what get_historical_news returned
    script,              \* how the wrapped function behaves on its successive calls
    attempts,            \* the calls the retry wrapper has made so far
    retry_result         \* what the retry wrapper returned or raised

vars == << pc, weeks, now, feed, initial_capital, portfolio, trades,
           performance_history, data_cache, cache_csv, slice_csv, csv_cache,
           price_data, current_date, week_count, results, call, advice,
           ohlcv_fetches, news_fetches, ind, signal_result, close_prices,
           risk_result, last_two, events, csv_file, read_result, news_cache,
           news_request, news_result, script, attempts, retry_result >>

fetch_vars == << ohlcv_fetches, news_fetches >>
analysis_vars == << ind, signal_result, close_prices, risk_result >>
event_vars == << last_two, events >>
read_vars == << csv_file, read_result >>
news_vars == << news_cache, news_request, news_result >>
retry_vars == << script, attempts, retry_result >>
tool_vars == << event_vars, read_vars, news_vars, retry_vars >>

-----------------------------------------------------------------------------
(* Bounds of the model *)

MaxWeeks == 2
TicksPerDay == 2
MaxCalls == 4
MantissaBits == 14      \* significant bits of a float (binary64 keeps 53)
MaxCloses == 4          \* longest series handed to compute_risk_metrics

(* Constants of the program *)

data_buffer_weeks == 26
min_required_days == 50
period_days == 180
default_initial_capital == 10000

Prices == {90, 95, 100, 110}
TradeCapitals == {0, 50, default_initial_capital, 46348, 66592}
TradeActions == {"BUY", "SELL", "HOLD", "buy"}

-----------------------------------------------------------------------------
(* Dates *)

Week == 7 * TicksPerDay

\* timedelta(weeks=n)
\* mutant: timedelta(days=n)
timedelta_days(n) == n * TicksPerDay

timedelta_weeks(n) == n * Week

\* d.strftime('%Y-%m-%d'), read back as a timestamp: the time of day is lost
strftime(d) == (d \div TicksPerDay) * TicksPerDay

\* the day of the run; early enough dates stay non-negative
NowDay == (data_buffer_weeks + MaxWeeks + 1) * 7 + 3

backtest_start_date(n, w) == n - timedelta_weeks(w)
data_start_date(n, w) == backtest_start_date(n, w) - timedelta_weeks(data_buffer_weeks)

-----------------------------------------------------------------------------
(* Price tables: ascending sequences of bars [date, close] *)

\* mutant: the first n rows
tail_from_top(df, n) == IF Len(df) > n THEN SubSeq(df, 1, n) ELSE df

tail(df, n) == IF Len(df) > n THEN SubSeq(df, Len(df) - n + 1, Len(df)) ELSE df


-----------------------------------------------------------------------------
(* The data source: daily bars from day `first` to day `last`, whose close  *)
(* follows a price path that is constant within each simulated week.        *)

PriceCycle == <<90, 100, 110>>

\* close of segment k on the path that advances by s places a segment
PathPrice(s, k) == PriceCycle[((s * k) % Len(PriceCycle)) + 1]

\* segment of a bar: 0 in the buffer, k for the bar that week k trades at,
\* w + 1 after the last simulated date
Segment(t, n, w) ==
    LET S == backtest_start_date(n, w) IN
    IF t <= S - Week THEN 0
    ELSE IF t <= S THEN 1
    ELSE 1 + ((t - S + Week - 1) \div Week)

Histories == {"long", "edge", "late", "stale", "buffer"}

FirstDay(h, n, w) ==
    CASE h = "long"  -> (data_start_date(n, w) \div TicksPerDay) - 2
      [] h = "edge"  -> (backtest_start_date(n, w) \div TicksPerDay) - (min_required_days - 1)
      [] h = "late"  -> (backtest_start_date(n, w) \div TicksPerDay) + 3
      [] h = "stale" -> (data_start_date(n, w) \div TicksPerDay) - 3
      [] h = "buffer" -> data_start_date(n, w) \div TicksPerDay

LastDay(h, n, w) ==
    CASE h = "stale" -> (data_start_date(n, w) \div TicksPerDay) - 1
      [] h = "buffer" -> (backtest_start_date(n, w) \div TicksPerDay) - 1
      [] OTHER -> n \div TicksPerDay

Bars(h, n, w, s) ==
    LET first == FirstDay(h, n, w)
        count == LastDay(h, n, w) - first + 1
    IN  [i \in 1..count |->
            LET t == (first + i - 1) * TicksPerDay IN
            [date |-> t, close |-> PathPrice(s, Segment(t, n, w))]]

Feeds(n, w) ==
    {Bars(h, n, w, s) : h \in Histories, s \in 0..(Len(PriceCycle) - 1)}

-----------------------------------------------------------------------------
(* StrategyBacktester.cache_historical_data: the rows of the fetched table  *)
(* between the two date strings, written to the cache file                  *)

cache_historical_data(df, start_date, end_date) ==
    SelectSeq(df, LAMBDA bar : bar.date >= start_date /\ bar.date <= end_date)

\* mutant: the cache is not consulted
cache_hit_never(cache, cache_key) == FALSE

\* line 42: cache_key in self.data_cache
cache_hit(cache, cache_key) == cache_key \in cache

(* StrategyBacktester.get_data_for_date *)

\* mutant: bars dated at the target date are let through
get_data_for_date_inclusive(cached, df, target_date) ==
    IF ~cached
    THEN [raised |-> TRUE, data |-> <<>>]
    ELSE LET available_data == SelectSeq(df, LAMBDA bar : bar.date <= target_date) IN
         IF Len(available_data) < min_required_days
         THEN [raised |-> TRUE, data |-> <<>>]
         ELSE [raised |-> FALSE, data |-> tail(available_data, period_days)]

get_data_for_date(cached, df, target_date) ==
    IF ~cached
    THEN [raised |-> TRUE, data |-> <<>>]
    ELSE LET available_data == SelectSeq(df, LAMBDA bar : bar.date < target_date) IN
         IF Len(available_data) < min_required_days
         THEN [raised |-> TRUE, data |-> <<>>]
         ELSE [raised |-> FALSE, data |-> tail(available_data, period_days)]

-----------------------------------------------------------------------------
(* Float arithmetic: cash, price, cost, proceeds and total_value are floats. *)
(* Every amount of the model is a whole number, so a float is written as    *)
(* the integer it equals; an operation returns the exact result rounded to  *)
(* the nearest float of MantissaBits significant bits, ties to even.        *)

\* the number of bits of the whole number x >= 0
bit_length == [x \in Nat |-> Cardinality({k \in 0..30 : 2 ^ k <= x})]

\* the distance between neighbouring floats at the whole number x >= 0
ulp == [x \in Nat |->
    IF bit_length[x] > MantissaBits THEN 2 ^ (bit_length[x] - MantissaBits) ELSE 1]

\* the multiple of u nearest to x >= 0, the even one of two equally near
round_half_even == [x \in Nat, u \in Nat |->
    LET m == x \div u
        r == x % u
    IN  IF 2 * r > u \/ (2 * r = u /\ m % 2 = 1) THEN (m + 1) * u ELSE m * u]

\* the float nearest to the whole number x
fl == [x \in Int |->
    IF x >= 0 THEN round_half_even[x, ulp[x]] ELSE -round_half_even[-x, ulp[-x]]]

fadd == [a \in Int, b \in Int |-> fl[a + b]]
fsub == [a \in Int, b \in Int |-> fl[a - b]]
fmul == [a \in Int, b \in Int |-> fl[fl[a] * fl[b]]]

\* int(a / b) for floats a >= 0 and b > 0: the quotient is rounded to a float
\* and then truncated. A quotient of MantissaBits or more bits is rounded to
\* a multiple of its ulp; below that the float keeps fraction bits, and the
\* rounding reaches the next whole number when the quotient is within half
\* an ulp of it
int_truediv == [a \in Nat, b \in Nat \ {0} |->
    LET f == a \div b
        n == bit_length[f]
    IN  IF n >= MantissaBits
        THEN round_half_even[a, b * (2 ^ (n - MantissaBits))] \div b
        ELSE IF (f + 1) * b - a <= b \div (2 ^ (MantissaBits + 1 - n)) THEN f + 1 ELSE f]

-----------------------------------------------------------------------------
(* StrategyBacktester.execute_trade *)

Trade(date, action, shares, price, value, confidence) ==
    [date |-> date, action |-> action, shares |-> shares, price |-> price,
     value |-> value, confidence |-> confidence]

\* mutant: the BUY is not logged
buy_unlogged(pf, trs, price, date, confidence) ==
    LET shares_to_buy == int_truediv[pf.cash, price] IN
    IF shares_to_buy > 0
    THEN LET cost == fmul[shares_to_buy, price] IN
         [portfolio |-> [pf EXCEPT !.cash = fsub[@, cost], !.shares = @ + shares_to_buy],
          trades |-> trs]
    ELSE [portfolio |-> pf, trades |-> trs]

\* the BUY branch
buy(pf, trs, price, date, confidence) ==
    LET shares_to_buy == int_truediv[pf.cash, price] IN
    IF shares_to_buy > 0
    THEN LET cost == fmul[shares_to_buy, price] IN
         [portfolio |-> [pf EXCEPT !.cash = fsub[@, cost], !.shares = @ + shares_to_buy],
          trades |-> Append(trs, Trade(date, "BUY", shares_to_buy, price, cost, confidence))]
    ELSE [portfolio |-> pf, trades |-> trs]

\* mutant: the position is not zeroed
sell_keeps_shares(pf, trs, price, date, confidence) ==
    LET shares_to_sell == pf.shares
        proceeds == fmul[shares_to_sell, price]
    IN  [portfolio |-> [pf EXCEPT !.cash = fadd[@, proceeds]],
         trades |-> Append(trs, Trade(date, "SELL", shares_to_sell, price, proceeds, confidence))]

\* the SELL branch
sell(pf, trs, price, date, confidence) ==
    LET shares_to_sell == pf.shares
        proceeds == fmul[shares_to_sell, price]
    IN  [portfolio |-> [pf EXCEPT !.cash = fadd[@, proceeds], !.shares = 0],
         trades |-> Append(trs, Trade(date, "SELL", shares_to_sell, price, proceeds, confidence))]

\* mutant: the action is compared without regard to case
dispatch_caseless(pf, trs, action, price, date, confidence) ==
    IF action \in {"BUY", "buy"} /\ pf.cash > 0 THEN buy(pf, trs, price, date, confidence)
    ELSE IF action \in {"SELL", "sell"} /\ pf.shares > 0
         THEN sell(pf, trs, price, date, confidence)
    ELSE [portfolio |-> pf, trades |-> trs]

\* the branch taken for the action
dispatch(pf, trs, action, price, date, confidence) ==
    IF action = "BUY" /\ pf.cash > 0 THEN buy(pf, trs, price, date, confidence)
    ELSE IF action = "SELL" /\ pf.shares > 0 THEN sell(pf, trs, price, date, confidence)
    ELSE [portfolio |-> pf, trades |-> trs]

\* mutant: total_value is left as it was
update_total_value_skipped(pf, price) == pf

\* the update of total_value that ends every call
update_total_value(pf, price) ==
    [pf EXCEPT !.total_value = fadd[pf.cash, fmul[pf.shares, price]]]

execute_trade(pf, trs, action, price, date, confidence) ==
    LET after == dispatch(pf, trs, action, price, date, confidence) IN
    [portfolio |-> update_total_value(after.portfolio, price), trades |-> after.trades]

\* the call and what it found, kept for the properties
CallOf(n, action, price, pf, trs) ==
    [n |-> n, action |-> action, price |-> price, portfolio |-> pf, trades |-> trs]

NoCall == CallOf(0, "", 0, [cash |-> 0, shares |-> 0, total_value |-> 0], <<>>)


-----------------------------------------------------------------------------
(* What the crew hands back, and how run_strategy_analysis reads it         *)

\* a Python value after json.loads: a dict (val holds its entries), a value
\* that is no dict, a JSONDecodeError, or another exception while parsing
EmptyDict == [k \in {} |-> ""]
Dict(d) == [type |-> "dict", val |-> d]
NotADict == [type |-> "list", val |-> EmptyDict]
Undecodable == [type |-> "JSONDecodeError", val |-> EmptyDict]
ParseFailure == [type |-> "Exception", val |-> EmptyDict]

Decision(action, confidence) == [action |-> action, confidence |-> confidence]

\* result_content: its Python type, what json.loads makes of it when it is a
\* string (or the dict itself), and the keywords its upper-cased text contains
Content(type, json, words) == [type |-> type, json |-> json, words |-> words]

JsonObjects ==
    {Decision(a, "1.0") : a \in {"BUY", "SELL", "HOLD", "buy"}}
        \cup {"confidence" :> "1.0", "action" :> "BUY"}

CrewOutputs ==
    {Content("str", Dict(d), {}) : d \in JsonObjects}
        \cup {Content("str", NotADict, {}), Content("str", ParseFailure, {})}
        \cup {Content("str", Undecodable, ws) : ws \in SUBSET {"BUY", "SELL"}}
        \cup {Content("dict", Dict(Decision("SELL", "1.0")), {})}
        \cup {Content("other", NotADict, ws) : ws \in {{}, {"BUY"}}}

\* the period's source of advice: none yet, the crew returned, the crew raised,
\* or get_data_for_date raised before the crew was called
Advice(kind, result_content) == [kind |-> kind, content |-> result_content]
NoAdvice == Advice("none", Content("", NotADict, {}))

\* mutant: SELL is looked for first
from_text_sell_first(words) ==
    IF "SELL" \in words THEN Dict(Decision("SELL", "0.5"))
    ELSE IF "BUY" \in words THEN Dict(Decision("BUY", "0.5"))
    ELSE Dict(Decision("HOLD", "0.5"))

\* the keyword search on the upper-cased text
from_text(words) ==
    IF "BUY" \in words THEN Dict(Decision("BUY", "0.5"))
    ELSE IF "SELL" \in words THEN Dict(Decision("SELL", "0.5"))
    ELSE Dict(Decision("HOLD", "0.5"))

\* mutant: the fallback carries the confidence of the keyword search
fallback_half == Dict([action |-> "HOLD", confidence |-> "0.5", error |-> "error"])

\* {'action': 'HOLD', 'confidence': 0.0, 'error': str(e)}
fallback == Dict([action |-> "HOLD", confidence |-> "0.0", error |-> "error"])

\* the parsing of the crew result
parse_result(result_content) ==
    IF result_content.type = "str"
    THEN IF result_content.json.type = "Exception" THEN fallback
         ELSE IF result_content.json.type = "JSONDecodeError"
              THEN from_text(result_content.words)
              ELSE result_content.json
    ELSE IF result_content.type = "dict" THEN result_content.json
    ELSE from_text(result_content.words)

\* dict.get(key, default)
get(d, key, default) == IF key \in DOMAIN d THEN d[key] ELSE default

\* run_backtest: "Safely extract action and confidence"
extract(recommendation) ==
    IF recommendation.type = "dict"
    THEN Decision(get(recommendation.val, "action", "HOLD"),
                  get(recommendation.val, "confidence", "0.0"))
    ELSE Decision("HOLD", "0.0")

-----------------------------------------------------------------------------
(* Floats that are quotients: the final metrics of run_backtest and the    *)
(* daily returns divide, so their values are fractions, kept exactly as a  *)
(* pair <<numerator, denominator>> in lowest terms with denominator > 0.    *)
(* The rounding of these divisions is left out.                             *)

abs == [x \in Int |-> IF x < 0 THEN -x ELSE x]

gcd[a \in Nat, b \in Nat] == IF b = 0 THEN a ELSE gcd[b, a % b]

ratio == [n \in Int, d \in Int \ {0} |->
    LET g == gcd[abs[n], abs[d]]
    IN  IF d < 0 THEN << (-n) \div g, (-d) \div g >> ELSE << n \div g, d \div g >>]

\* a whole-number float as a fraction
whole == [x \in Int |-> << x, 1 >>]

truediv == [a \in Int \X Int, b \in Int \X Int |-> ratio[a[1] * b[2], a[2] * b[1]]]
mul == [a \in Int \X Int, b \in Int \X Int |-> ratio[a[1] * b[1], a[2] * b[2]]]
sub == [a \in Int \X Int, b \in Int \X Int |-> ratio[a[1] * b[2] - b[1] * a[2], a[2] * b[2]]]

-----------------------------------------------------------------------------
(* src/analysis/signals.py and src/analysis/risk.py *)

(* generate_rule_based_signal.  The score is a float that only ever holds   *)
(* multiples of 0.5, sums of which are exact: it is kept as a count of      *)
(* halves.  An indicator may be NaN (too few rows for its window), and      *)
(* every comparison with NaN is false.                                      *)

NaN == -99
gt(a, b) == a # NaN /\ b # NaN /\ a > b
lt(a, b) == a # NaN /\ b # NaN /\ a < b

one == 2            \* 1 in halves
half == 1           \* 0.5 in halves
buy_threshold == 3  \* 1.5 in halves
sell_threshold == -3

Rule(score, reasons) == [score |-> score, reasons |-> reasons]
NoRule == Rule(0, <<>>)

\* mutant: a downtrend costs nothing
ema_rule_one_sided(i) ==
    IF gt(i.ema20, i.ema50) THEN Rule(one, <<"EMA20 > EMA50 (uptrend)">>)
    ELSE NoRule

ema_rule(i) ==
    IF gt(i.ema20, i.ema50) THEN Rule(one, <<"EMA20 > EMA50 (uptrend)">>)
    ELSE Rule(-one, <<"EMA20 < EMA50 (downtrend)">>)

macd_rule(i) ==
    IF gt(i.macd, i.macd_signal) THEN Rule(one, <<"MACD > signal (bullish momentum)">>)
    ELSE Rule(-one, <<"MACD < signal (bearish momentum)">>)

\* mutant: the oversold and overbought bounds count as oversold and overbought
rsi_rule_inclusive(i) ==
    IF i.rsi # NaN /\ i.rsi <= 30 THEN Rule(half, <<"RSI < 30 (oversold)">>)
    ELSE IF i.rsi # NaN /\ i.rsi >= 70 THEN Rule(-half, <<"RSI > 70 (overbought)">>)
    ELSE NoRule

rsi_rule(i) ==
    IF lt(i.rsi, 30) THEN Rule(half, <<"RSI < 30 (oversold)">>)
    ELSE IF gt(i.rsi, 70) THEN Rule(-half, <<"RSI > 70 (overbought)">>)
    ELSE NoRule

lower_band_rule(i) ==
    IF lt(i.close, i.bb_lower) THEN Rule(half, <<"Below lower band (mean-reversion up)">>)
    ELSE NoRule

upper_band_rule(i) ==
    IF gt(i.close, i.bb_upper) THEN Rule(-half, <<"Above upper band (mean-reversion down)">>)
    ELSE NoRule

\* mutant: the thresholds themselves give HOLD
signal_of_exclusive(score) ==
    IF score > buy_threshold THEN "BUY"
    ELSE IF score < sell_threshold THEN "SELL"
    ELSE "HOLD"

\* lines 55-59
signal_of(score) ==
    IF score >= buy_threshold THEN "BUY"
    ELSE IF score <= sell_threshold THEN "SELL"
    ELSE "HOLD"

generate_rule_based_signal(i) ==
    LET rules == << ema_rule(i), macd_rule(i), rsi_rule(i), lower_band_rule(i),
                    upper_band_rule(i) >>
        score == rules[1].score + rules[2].score + rules[3].score + rules[4].score
                     + rules[5].score
        reasons == rules[1].reasons \o rules[2].reasons \o rules[3].reasons
                       \o rules[4].reasons \o rules[5].reasons
    IN  [signal |-> signal_of(score), score |-> score, reasons |-> reasons,
         indicators |-> i]

\* the snapshots of compute_all_indicators: the bands are mid -/+ 2 sd, so the
\* lower band is never above the upper one, and both are NaN together
Bands == {b \in {10, 20, 30} \X {10, 20, 30} : b[1] <= b[2]} \cup {<<NaN, NaN>>}

Snapshots ==
    {[close |-> c, ema20 |-> e[1], ema50 |-> e[2], macd |-> m[1], macd_signal |-> m[2],
      rsi |-> r, bb_lower |-> b[1], bb_upper |-> b[2]] :
        c \in {10, 20, 30}, e \in {1, 2} \X {1, 2}, m \in {-1, 1} \X {-1, 1},
        r \in {NaN, 29, 30, 50, 70, 71}, b \in Bands}

NoSnapshot == [close |-> 0]
NoSignal == [signal |-> ""]

(* compute_risk_metrics.  Closes are whole numbers, so a daily return is a  *)
(* fraction <<numerator, denominator>>; a return whose value is a whole     *)
(* number is exact as a float as well.                                      *)

CloseValues == {1, 2, 11, 24}

\* close_prices.pct_change().dropna()
pct_change(closes) ==
    [k \in 1..(Len(closes) - 1) |-> ratio[closes[k + 1] - closes[k], closes[k]]]

extreme_return == 10    \* 10.0, a daily return of 1000 percent

\* np.abs(r) > 10.0
is_extreme(r) == abs[r[1]] > extreme_return * r[2]

\* mutant: a return of the bound itself is dropped as well
drop_extreme_inclusive(rets) ==
    SelectSeq(rets, LAMBDA r : abs[r[1]] < extreme_return * r[2])

\* lines 61-64
drop_extreme(rets) ==
    IF \E k \in 1..Len(rets) : is_extreme(rets[k])
    THEN SelectSeq(rets, LAMBDA r : ~is_extreme(r))
    ELSE rets

less(a, b) == a[1] * b[2] < b[1] * a[2]

\* rets.min()
min(rets) ==
    CHOOSE r \in {rets[k] : k \in 1..Len(rets)} :
        \A k \in 1..Len(rets) : ~less(rets[k], r)

ValueError == [raised |-> TRUE, n_days |-> 0]

\* rets is the series the volatility, the drawdown and the VaR are computed
\* from; with fewer than 20 returns the VaR is the worst return
compute_risk_metrics(closes) ==
    IF Len(closes) < 2 THEN ValueError
    ELSE LET rets == pct_change(closes) IN
         IF Len(rets) < 2 THEN ValueError
         ELSE LET kept == drop_extreme(rets) IN
              IF Len(kept) = 0 THEN ValueError
              ELSE [raised |-> FALSE, rets |-> kept, n_days |-> Len(kept),
                    hist_VaR_1d_95 |-> min(kept)]

NoRisk == [raised |-> FALSE, n_days |-> 0]

NothingAnalysed ==
    /\ ind = NoSnapshot
    /\ signal_result = NoSignal
    /\ close_prices = <<>>
    /\ risk_result = NoRisk

NothingFetched == ohlcv_fetches = 0 /\ news_fetches = 0

NoEvents == [raised |-> FALSE, events |-> <<>>]
NoRead == [raised |-> "", df |-> <<>>]
NoRequest == [ticker |-> <<>>, target_date |-> 0, days_back |-> 0]
NoOutcome == [raised |-> 0, returned |-> 0]

NoToolCalled ==
    /\ last_two = <<>>
    /\ events = NoEvents
    /\ csv_file = <<>>
    /\ read_result = NoRead
    /\ news_cache = <<>>
    /\ news_request = NoRequest
    /\ news_result = <<>>
    /\ script = <<>>
    /\ attempts = <<>>
    /\ retry_result = NoOutcome

-----------------------------------------------------------------------------
(* run_backtest *)

NoPath == [name |-> "", date |-> 0]
CachePath == [name |-> "backtest_cache", date |-> 0]
SlicePath(target_date) == [name |-> "backtest", date |-> strftime(target_date)]

\* mutant: an entry that exists is kept
set_csv_data_once(entry, csv_path) == IF entry.name = "" THEN csv_path ELSE entry

\* DataCache.set_csv_data: the ticker's entry is replaced by the new path
set_csv_data(entry, csv_path) == csv_path

\* pd.read_csv / read_prices of a path
read_csv(path) ==
    IF path.name = "backtest_cache" THEN cache_csv
    ELSE IF path.name = "backtest" /\ path.date \in DOMAIN slice_csv THEN slice_csv[path.date]
    ELSE <<>>

\* mutant: the return is left as a fraction of the capital
return_pct_fraction == [value \in Int \X Int, capital \in Int \ {0} |->
    truediv[sub[value, whole[capital]], whole[capital]]]

\* ((value - initial_capital) / initial_capital) * 100
return_pct == [value \in Int \X Int, capital \in Int \ {0} |->
    mul[truediv[sub[value, whole[capital]], whole[capital]], whole[100]]]

NoResults == [returned |-> FALSE, weeks_tested |-> 0, total_trades |-> 0,
              final_portfolio_value |-> 0, total_return_pct |-> whole[0],
              buy_hold_value |-> whole[0], buy_hold_return_pct |-> whole[0],
              strategy_vs_buy_hold |-> whole[0]]

Fresh(capital) == [cash |-> capital, shares |-> 0, total_value |-> capital]

PerformanceRecord(date, price, pf, d) ==
    [date |-> date, price |-> price,
     portfolio_value |-> fadd[pf.cash, fmul[pf.shares, price]],
     cash |-> pf.cash, shares |-> pf.shares,
     action |-> d.action, confidence |-> d.confidence]

\* mutant: the week counter is compared with <=
InLoop_one_more == current_date <= now /\ week_count <= weeks

\* the condition of the while loop
InLoop == current_date <= now /\ week_count < weeks

\* mutant: the table is not cut at the simulated date
available_prices_unfiltered == price_data

available_prices == SelectSeq(price_data, LAMBDA bar : bar.date <= current_date)

\* the last row of available_prices
current_bar == available_prices[Len(available_prices)]

\* lines 295-313: execute the trade, record the period, move to the next week
Trading(d) ==
    LET done == execute_trade(portfolio, trades, d.action, current_bar.close,
                              current_bar.date, d.confidence)
    IN  /\ call' = CallOf(call.n + 1, d.action, current_bar.close, portfolio, trades)
        /\ portfolio' = done.portfolio
        /\ trades' = done.trades
        /\ performance_history' =
              Append(performance_history,
                     PerformanceRecord(current_bar.date, current_bar.close, done.portfolio, d))
        /\ current_date' = current_date + timedelta_weeks(1)

Init ==
    /\ pc = "start"
    /\ weeks \in 0..MaxWeeks
    /\ now \in {NowDay * TicksPerDay + tod : tod \in 0..(TicksPerDay - 1)}
    /\ feed \in Feeds(now, weeks)
    /\ initial_capital = default_initial_capital
    /\ portfolio = Fresh(initial_capital)
    /\ trades = <<>>
    /\ performance_history = <<>>
    /\ data_cache = {}
    /\ cache_csv = <<>>
    /\ slice_csv = [d \in {} |-> <<>>]
    /\ csv_cache = NoPath
    /\ price_data = <<>>
    /\ current_date = 0
    /\ week_count = 0
    /\ results = NoResults
    /\ call = NoCall
    /\ advice = NoAdvice
    /\ NothingFetched
    /\ NothingAnalysed
    /\ NoToolCalled

\* lines 40-65: a call of cache_historical_data for the run's ticker and date
\* range, whose cache key is "range"; more_keys are written by the caller
CacheCall(more_keys) ==
    /\ IF cache_hit(data_cache, "range")
       THEN UNCHANGED << cache_csv, ohlcv_fetches >>
       ELSE /\ ohlcv_fetches' = ohlcv_fetches + 1
            /\ cache_csv' = cache_historical_data(feed, strftime(data_start_date(now, weeks)),
                                                  strftime(now))
    /\ data_cache' = data_cache \cup {"range"} \cup more_keys

\* lines 232-268: the data is fetched, cached and registered
Setup ==
    /\ pc = "start"
    /\ CacheCall({"full_history"})
    /\ csv_cache' = set_csv_data(csv_cache, CachePath)
    /\ price_data' = cache_csv'
    /\ current_date' = backtest_start_date(now, weeks)
    /\ week_count' = 0
    /\ news_fetches' = news_fetches + 1
    /\ pc' = "loop"
    /\ UNCHANGED << weeks, now, feed, initial_capital, portfolio, trades,
                    performance_history, slice_csv, results, call, advice,
                    analysis_vars, tool_vars >>

\* lines 49-69: the fetch raises and cache_historical_data raises again
SetupFails ==
    /\ pc = "start"
    /\ ohlcv_fetches' = ohlcv_fetches + 1
    /\ UNCHANGED news_fetches
    /\ pc' = "failed"
    /\ UNCHANGED << weeks, now, feed, initial_capital, portfolio, trades,
                    performance_history, data_cache, cache_csv, slice_csv, csv_cache,
                    price_data, current_date, week_count, results, call, advice,
                    analysis_vars, tool_vars >>

\* lines 270-278: no bar yet at the simulated date
WeekSkipped ==
    /\ pc = "loop"
    /\ InLoop
    /\ Len(available_prices) = 0
    /\ week_count' = week_count + 1
    /\ current_date' = current_date + timedelta_weeks(1)
    /\ UNCHANGED << pc, weeks, now, feed, initial_capital, portfolio, trades,
                    performance_history, data_cache, cache_csv, slice_csv, csv_cache,
                    price_data, results, call, advice,
                    fetch_vars, analysis_vars, tool_vars >>

\* mutant: the period is passed over like one without a bar
WeekWithoutSlice_skipped ==
    /\ pc = "loop"
    /\ InLoop
    /\ Len(available_prices) > 0
    /\ get_data_for_date("full_history" \in data_cache, cache_csv, current_date).raised
    /\ week_count' = week_count + 1
    /\ current_date' = current_date + timedelta_weeks(1)
    /\ advice' = Advice("no_slice", NoAdvice.content)
    /\ UNCHANGED << pc, weeks, now, feed, initial_capital, portfolio, trades,
                    performance_history, data_cache, cache_csv, slice_csv, csv_cache,
                    price_data, results, call, fetch_vars, analysis_vars, tool_vars >>

\* lines 114-116, 178-180: get_data_for_date raises, the period falls back
WeekWithoutSlice ==
    /\ pc = "loop"
    /\ InLoop
    /\ Len(available_prices) > 0
    /\ get_data_for_date("full_history" \in data_cache, cache_csv, current_date).raised
    /\ week_count' = week_count + 1
    /\ Trading(extract(fallback))
    /\ advice' = Advice("no_slice", NoAdvice.content)
    /\ UNCHANGED << pc, weeks, now, feed, initial_capital, data_cache, cache_csv,
                    slice_csv, csv_cache, price_data, results,
                    fetch_vars, analysis_vars, tool_vars >>

\* lines 114-124: the slice is written and registered for the crew's tools
WeekPrepared ==
    /\ pc = "loop"
    /\ InLoop
    /\ Len(available_prices) > 0
    /\ LET got == get_data_for_date("full_history" \in data_cache, cache_csv, current_date) IN
       /\ ~got.raised
       /\ slice_csv' = (strftime(current_date) :> got.data) @@ slice_csv
       /\ csv_cache' = set_csv_data(csv_cache, SlicePath(current_date))
    /\ week_count' = week_count + 1
    /\ pc' = "kickoff"
    /\ UNCHANGED << weeks, now, feed, initial_capital, portfolio, trades,
                    performance_history, data_cache, cache_csv, price_data,
                    current_date, results, call, advice,
                    fetch_vars, analysis_vars, tool_vars >>

\* lines 127-169, 284-313: the crew answers
Kickoff(result_content) ==
    /\ pc = "kickoff"
    /\ Trading(extract(parse_result(result_content)))
    /\ advice' = Advice("returned", result_content)
    /\ pc' = "loop"
    /\ UNCHANGED << weeks, now, feed, initial_capital, data_cache, cache_csv,
                    slice_csv, csv_cache, price_data, week_count, results,
                    fetch_vars, analysis_vars, tool_vars >>

\* lines 127, 178-180: the crew raises
KickoffRaises ==
    /\ pc = "kickoff"
    /\ Trading(extract(fallback))
    /\ advice' = Advice("raised", NoAdvice.content)
    /\ pc' = "loop"
    /\ UNCHANGED << weeks, now, feed, initial_capital, data_cache, cache_csv,
                    slice_csv, csv_cache, price_data, week_count, results,
                    fetch_vars, analysis_vars, tool_vars >>

\* price_data['Close'].iloc[0]
first_close(df) == df[1].close

\* lines 315-338
Finish ==
    /\ pc = "loop"
    /\ ~InLoop
    /\ Len(price_data) > 0
    /\ initial_capital # 0
    /\ LET final_price == price_data[Len(price_data)].close
           final_portfolio_value == fadd[portfolio.cash, fmul[portfolio.shares, final_price]]
           total_return == return_pct[whole[final_portfolio_value], initial_capital]
           initial_shares == truediv[whole[initial_capital], whole[first_close(price_data)]]
           buy_hold_value == mul[initial_shares, whole[final_price]]
           buy_hold_return == return_pct[buy_hold_value, initial_capital]
       IN  results' = [returned |-> TRUE, weeks_tested |-> week_count,
                       total_trades |-> Len(trades),
                       final_portfolio_value |-> final_portfolio_value,
                       total_return_pct |-> total_return,
                       buy_hold_value |-> buy_hold_value,
                       buy_hold_return_pct |-> buy_hold_return,
                       strategy_vs_buy_hold |-> sub[total_return, buy_hold_return]]
    /\ pc' = "done"
    /\ UNCHANGED << weeks, now, feed, initial_capital, portfolio, trades,
                    performance_history, data_cache, cache_csv, slice_csv, csv_cache,
                    price_data, current_date, week_count, call, advice,
                    fetch_vars, analysis_vars, tool_vars >>

\* lines 316-323: iloc[-1] of an empty table, or the division by a zero capital
FinishRaises ==
    /\ pc = "loop"
    /\ ~InLoop
    /\ (Len(price_data) = 0 \/ initial_capital = 0)
    /\ pc' = "failed"
    /\ UNCHANGED << weeks, now, feed, initial_capital, portfolio, trades,
                    performance_history, data_cache, cache_csv, slice_csv, csv_cache,
                    price_data, current_date, week_count, results, call, advice,
                    fetch_vars, analysis_vars, tool_vars >>

Next ==
    \/ Setup
    \/ SetupFails
    \/ WeekSkipped
    \/ WeekWithoutSlice
    \/ WeekPrepared
    \/ \E result_content \in CrewOutputs : Kickoff(result_content)
    \/ KickoffRaises
    \/ Finish
    \/ FinishRaises

Spec == Init /\ [][Next]_vars

\* cache_historical_data is called once more after the run, with the same
\* ticker and date range
CachedAgain ==
    /\ pc = "done"
    /\ CacheCall({})
    /\ pc' = "recached"
    /\ UNCHANGED << weeks, now, feed, initial_capital, portfolio, trades,
                    performance_history, slice_csv, csv_cache, price_data,
                    current_date, week_count, results, call, advice, news_fetches,
                    analysis_vars, tool_vars >>

CacheNext == Next \/ CachedAgain

CacheSpec == Init /\ [][CacheNext]_vars

-----------------------------------------------------------------------------
(* The end-to-end scenario: three simulated weeks whose bars close at 100,  *)
(* 110 and 90, on every history of the data source                          *)

ScenarioCloses == <<100, 110, 90>>
ScenarioWeeks == Len(ScenarioCloses)

\* the price path on which week k trades at ScenarioCloses[k]
ScenarioStride ==
    CHOOSE s \in 0..(Len(PriceCycle) - 1) :
        \A k \in 1..ScenarioWeeks : PathPrice(s, k) = ScenarioCloses[k]

ScenarioInit ==
    /\ pc = "start"
    /\ weeks = ScenarioWeeks
    /\ now \in {NowDay * TicksPerDay + tod : tod \in 0..(TicksPerDay - 1)}
    /\ feed \in {Bars(h, now, weeks, ScenarioStride) : h \in Histories}
    /\ initial_capital = default_initial_capital
    /\ portfolio = Fresh(initial_capital)
    /\ trades = <<>>
    /\ performance_history = <<>>
    /\ data_cache = {}
    /\ cache_csv = <<>>
    /\ slice_csv = [d \in {} |-> <<>>]
    /\ csv_cache = NoPath
    /\ price_data = <<>>
    /\ current_date = 0
    /\ week_count = 0
    /\ results = NoResults
    /\ call = NoCall
    /\ advice = NoAdvice
    /\ NothingFetched
    /\ NothingAnalysed
    /\ NoToolCalled

ScenarioSpec == ScenarioInit /\ [][Next]_vars

-----------------------------------------------------------------------------
(* generate_rule_based_signal alone, on every snapshot *)

Idle ==
    /\ weeks = 0
    /\ now = 0
    /\ feed = <<>>
    /\ initial_capital = default_initial_capital
    /\ portfolio = Fresh(initial_capital)
    /\ trades = <<>>
    /\ performance_history = <<>>
    /\ data_cache = {}
    /\ cache_csv = <<>>
    /\ slice_csv = [d \in {} |-> <<>>]
    /\ csv_cache = NoPath
    /\ price_data = <<>>
    /\ current_date = 0
    /\ week_count = 0
    /\ results = NoResults
    /\ call = NoCall
    /\ advice = NoAdvice
    /\ NothingFetched

SignalInit ==
    /\ pc = "signal"
    /\ Idle
    /\ NoToolCalled
    /\ ind \in Snapshots
    /\ signal_result = NoSignal
    /\ close_prices = <<>>
    /\ risk_result = NoRisk

SignalCall ==
    /\ pc = "signal"
    /\ signal_result' = generate_rule_based_signal(ind)
    /\ pc' = "signalled"
    /\ UNCHANGED << weeks, now, feed, initial_capital, portfolio, trades,
                    performance_history, data_cache, cache_csv, slice_csv, csv_cache,
                    price_data, current_date, week_count, results, call, advice,
                    fetch_vars, tool_vars, ind, close_prices, risk_result >>

SignalSpec == SignalInit /\ [][SignalCall]_vars

-----------------------------------------------------------------------------
(* compute_risk_metrics alone, on every short series of closes *)

RiskInit ==
    /\ pc = "risk"
    /\ Idle
    /\ NoToolCalled
    /\ ind = NoSnapshot
    /\ signal_result = NoSignal
    /\ close_prices \in UNION {[1..n -> CloseValues] : n \in 0..MaxCloses}
    /\ risk_result = NoRisk

RiskCall ==
    /\ pc = "risk"
    /\ risk_result' = compute_risk_metrics(close_prices)
    /\ pc' = "risked"
    /\ UNCHANGED << weeks, now, feed, initial_capital, portfolio, trades,
                    performance_history, data_cache, cache_csv, slice_csv, csv_cache,
                    price_data, current_date, week_count, results, call, advice,
                    fetch_vars, tool_vars, ind, signal_result, close_prices >>

RiskSpec == RiskInit /\ [][RiskCall]_vars

-----------------------------------------------------------------------------
(* execute_trade alone: any sequence of calls on a fresh portfolio *)

TradeInit ==
    /\ pc = "trade"
    /\ initial_capital \in TradeCapitals
    /\ portfolio = Fresh(initial_capital)
    /\ trades = <<>>
    /\ call = NoCall
    /\ advice = NoAdvice
    /\ NothingFetched
    /\ NothingAnalysed
    /\ NoToolCalled
    /\ weeks = 0
    /\ now = 0
    /\ feed = <<>>
    /\ performance_history = <<>>
    /\ data_cache = {}
    /\ cache_csv = <<>>
    /\ slice_csv = [d \in {} |-> <<>>]
    /\ csv_cache = NoPath
    /\ price_data = <<>>
    /\ current_date = 0
    /\ week_count = 0
    /\ results = NoResults

TradeCall(action, price) ==
    /\ pc = "trade"
    /\ call.n < MaxCalls
    /\ LET done == execute_trade(portfolio, trades, action, price, call.n + 1, "1.0") IN
       /\ portfolio' = done.portfolio
       /\ trades' = done.trades
    /\ call' = CallOf(call.n + 1, action, price, portfolio, trades)
    /\ UNCHANGED << pc, weeks, now, feed, initial_capital, performance_history,
                    data_cache, cache_csv, slice_csv, csv_cache, price_data,
                    current_date, week_count, results, advice,
                    fetch_vars, analysis_vars, tool_vars >>

TradeNext == \E action \in TradeActions, price \in Prices : TradeCall(action, price)

TradeSpec == TradeInit /\ [][TradeNext]_vars


-----------------------------------------------------------------------------
(* compute_all_indicators: the events it reads off the last two rows of the *)
(* indicator table                                                          *)

NotEnoughRows == [raised |-> TRUE, events |-> <<>>]

event(fires, text) == IF fires THEN <<text>> ELSE <<>>

\* lines 64-83; a table with one row has no previous row
detect_events(rows) ==
    IF Len(rows) < 2 THEN NotEnoughRows
    ELSE LET latest == rows[Len(rows)]
             prev == rows[Len(rows) - 1]
         IN  [raised |-> FALSE,
              events |->
                event(lt(prev.EMA20, prev.EMA50) /\ gt(latest.EMA20, latest.EMA50),
                      "Bullish EMA20/50 golden cross today")
                \o event(gt(prev.EMA20, prev.EMA50) /\ lt(latest.EMA20, latest.EMA50),
                         "Bearish EMA20/50 death cross today")
                \o event(lt(prev.MACD, prev.MACD_SIG) /\ gt(latest.MACD, latest.MACD_SIG),
                         "Bullish MACD cross above signal")
                \o event(gt(prev.MACD, prev.MACD_SIG) /\ lt(latest.MACD, prev.MACD_SIG),
                         "Bearish MACD cross below signal")
                \o event(lt(latest.Close, latest.BB_L),
                         "Price closed below lower Bollinger band (oversold)")
                \o event(gt(latest.Close, latest.BB_U),
                         "Price closed above upper Bollinger band (overbought)")]

(* The MACD columns.  MACD_SIG is ema(MACD, 9), which pandas computes with  *)
(* adjust=False as  weighted = (old_wt * weighted + new_wt * cur) /         *)
(* (old_wt + new_wt)  in floats, skipping the step when cur = weighted.     *)
(* MACD values are floats with a full mantissa, written as multiples of     *)
(* 2^-MantissaBits so that the rounded average is a whole number too.       *)

\* alpha = 1 / (1 + com) with com = (9 - 1) / 2, and 1 - alpha, both as
\* multiples of 2^-(MantissaBits + 2)
new_wt == round_half_even[2 ^ (MantissaBits + 2), 5] \div 5
old_wt == fl[2 ^ (MantissaBits + 2) - new_wt]

\* one step of the average, for floats weighted and cur given as multiples
\* of 1; the result is a multiple of 2^-MantissaBits. old_wt + new_wt rounds
\* to 1.0, so the division changes nothing
ewm_step == [weighted \in Nat, cur \in Nat |->
    IF weighted = cur THEN weighted * (2 ^ MantissaBits)
    ELSE fl[(fl[old_wt * weighted] \div 4) + (fl[new_wt * cur] \div 4)]]

\* four neighbouring floats
MacdValues == {2 ^ (MantissaBits - 1) + k : k \in 7..10}

\* the MACD and MACD_SIG columns of the last two rows
MacdColumns ==
    {<< [MACD |-> m * (2 ^ MantissaBits), MACD_SIG |-> w * (2 ^ MantissaBits)],
        [MACD |-> cur * (2 ^ MantissaBits), MACD_SIG |-> ewm_step[w, cur]] >> :
        m \in MacdValues, w \in MacdValues, cur \in MacdValues}

\* the band columns are NaN until the table has 20 rows
OtherColumns ==
    {[EMA20 |-> e[1], EMA50 |-> e[2], Close |-> 20, BB_L |-> b[1], BB_U |-> b[2]] :
        e \in {1, 2} \X {1, 2},
        b \in {<<NaN, NaN>>, <<10, 30>>, <<30, 30>>, <<10, 10>>}}

Row(o, m) ==
    [EMA20 |-> o.EMA20, EMA50 |-> o.EMA50, MACD |-> m.MACD, MACD_SIG |-> m.MACD_SIG,
     Close |-> o.Close, BB_L |-> o.BB_L, BB_U |-> o.BB_U]

\* the last rows of the table: one row, or the previous and the latest row
IndicatorTables ==
    {<< Row(o, m[1]) >> : o \in OtherColumns, m \in MacdColumns}
    \cup {<< Row([o EXCEPT !.EMA20 = e[1], !.EMA50 = e[2]], m[1]), Row(o, m[2]) >> :
            o \in OtherColumns, e \in {1, 2} \X {1, 2}, m \in MacdColumns}

EventInit ==
    /\ pc = "rows"
    /\ Idle
    /\ NothingAnalysed
    /\ last_two \in IndicatorTables
    /\ events = NoEvents
    /\ csv_file = <<>>
    /\ read_result = NoRead
    /\ news_cache = <<>>
    /\ news_request = NoRequest
    /\ news_result = <<>>
    /\ script = <<>>
    /\ attempts = <<>>
    /\ retry_result = NoOutcome

EventCall ==
    /\ pc = "rows"
    /\ events' = detect_events(last_two)
    /\ pc' = "events"
    /\ UNCHANGED << weeks, now, feed, initial_capital, portfolio, trades,
                    performance_history, data_cache, cache_csv, slice_csv, csv_cache,
                    price_data, current_date, week_count, results, call, advice,
                    fetch_vars, analysis_vars, last_two, read_vars, news_vars,
                    retry_vars >>

EventSpec == EventInit /\ [][EventCall]_vars


-----------------------------------------------------------------------------
(* src/utils/data_utils.py: read_prices and ensure_df.  The file does not   *)
(* change between the attempts, so every attempt ends the same way and the  *)
(* call raises what its last attempt raises.                                *)

MaxRows == 3            \* rows of the price table on disk
NaT == -98              \* what to_datetime(errors='coerce') makes of a bad date

CsvRows == {[Date |-> d, Close |-> c] : d \in {NaT, 1, 2}, c \in {10, 20}}

CsvFiles ==
    {[exists |-> e, columns |-> c, rows |-> r] :
        e \in BOOLEAN, c \in BOOLEAN, r \in UNION {[1..n -> CsvRows] : n \in 0..MaxRows}}

\* line 76: dropna(subset=[date_col])
dropna(rows) == SelectSeq(rows, LAMBDA r : r.Date # NaT)

NonDecreasing(df) == \A k \in 1..(Len(df) - 1) : df[k].Date <= df[k + 1].Date

\* line 76: sort_index() leaves a sorted table as it is; otherwise the rows
\* come out in date order, rows of one date in an order that is not promised
sort_index(rows) ==
    IF NonDecreasing(rows) THEN {rows}
    ELSE LET n == Len(rows)
             orders == {p \in [1..n -> 1..n] : \A i \in 1..n, j \in 1..n : p[i] = p[j] => i = j}
         IN  {df \in {[i \in 1..n |-> rows[p[i]]] : p \in orders} : NonDecreasing(df)}

Raised(error) == [raised |-> error, df |-> <<>>]

\* lines 111-132; has_columns says that the six required columns are there
ensure_df(df, has_columns) ==
    IF df = <<>> \/ ~has_columns THEN Raised("ValueError")
    ELSE [raised |-> "", df |-> df]

\* lines 31-108: what the last attempt returns or raises
read_prices(file) ==
    IF ~file.exists THEN {Raised("FileNotFoundError")}
    ELSE IF file.rows = <<>> THEN {Raised("ValueError")}
    ELSE IF dropna(file.rows) = <<>> THEN {Raised("ValueError")}
    ELSE {ensure_df(df, file.columns) : df \in sort_index(dropna(file.rows))}

ReadInit ==
    /\ pc = "file"
    /\ Idle
    /\ NothingAnalysed
    /\ last_two = <<>>
    /\ events = NoEvents
    /\ csv_file \in CsvFiles
    /\ read_result = NoRead
    /\ news_cache = <<>>
    /\ news_request = NoRequest
    /\ news_result = <<>>
    /\ script = <<>>
    /\ attempts = <<>>
    /\ retry_result = NoOutcome

ReadCall ==
    /\ pc = "file"
    /\ read_result' \in read_prices(csv_file)
    /\ pc' = "read"
    /\ UNCHANGED << weeks, now, feed, initial_capital, portfolio, trades,
                    performance_history, data_cache, cache_csv, slice_csv, csv_cache,
                    price_data, current_date, week_count, results, call, advice,
                    fetch_vars, analysis_vars, event_vars, csv_file, news_vars,
                    retry_vars >>

ReadSpec == ReadInit /\ [][ReadCall]_vars


-----------------------------------------------------------------------------
(* src/agents/cached_tools.py: the news cache of DataCache.  A ticker is a  *)
(* sequence of characters and a cache key the sequence of the pieces of     *)
(* f"{ticker}_{start_date}_{end_date}", so that `ticker in key` is the      *)
(* substring test it is in Python.  Dates are timestamps at midnight; their *)
(* order is the order of the 'YYYY-MM-DD' strings the code compares.        *)

MaxEntries == 2         \* entries of news_cache

Tickers == {<<"A">>, <<"A", "B">>}

Day(k) == k * TicksPerDay
NewsDays == {Day(k) : k \in 1..3}

\* an article without 'time' has the date '', which sorts before every date
NoTime == -1
Articles == {[title |-> "t", time |-> t] : t \in NewsDays \cup {NoTime}}
NewsLists == {<<>>} \cup {<<a>> : a \in Articles}

\* line 44
cache_key(ticker, start_date, end_date) ==
    ticker \o << "_", ToString(start_date), "_", ToString(end_date) >>

\* line 66: ticker in key
contains(key, ticker) ==
    \E i \in 1..(Len(key) - Len(ticker) + 1) : SubSeq(key, i, i + Len(ticker) - 1) = ticker

\* lines 42-51: a dict keeps a key that is set again at its place
set_historical_news(cache, ticker, news_data, start_date, end_date) ==
    LET key == cache_key(ticker, start_date, end_date)
        entry == [key |-> key, news |-> news_data, ticker |-> ticker,
                  start_date |-> start_date, end_date |-> end_date]
    IN  IF \E k \in DOMAIN cache : cache[k].key = key
        THEN [k \in DOMAIN cache |-> IF cache[k].key = key THEN entry ELSE cache[k]]
        ELSE Append(cache, entry)

\* line 77: article.get('time', '')[:10]
article_date(article) == IF article.time = NoTime THEN NoTime ELSE strftime(article.time)

\* lines 54-84
get_historical_news(cache, ticker, target_date, days_back) ==
    LET start_date == strftime(target_date - days_back * TicksPerDay)
        end_date == strftime(target_date)
        key == cache_key(ticker, start_date, end_date)
        exact == {k \in DOMAIN cache : cache[k].key = key}
        overlapping == {k \in DOMAIN cache :
                           /\ contains(cache[k].key, ticker)
                           /\ cache[k].start_date <= start_date
                           /\ cache[k].end_date >= end_date}
    IN  IF exact # {} THEN cache[CHOOSE k \in exact : TRUE].news
        ELSE IF overlapping # {}
             THEN LET first == CHOOSE k \in overlapping : \A other \in overlapping : k <= other
                  IN  SelectSeq(cache[first].news,
                                LAMBDA article : /\ start_date <= article_date(article)
                                                 /\ article_date(article) <= end_date)
        ELSE <<>>

NewsInit ==
    /\ pc = "news"
    /\ Idle
    /\ NothingAnalysed
    /\ last_two = <<>>
    /\ events = NoEvents
    /\ csv_file = <<>>
    /\ read_result = NoRead
    /\ news_cache = <<>>
    /\ news_request = NoRequest
    /\ news_result = <<>>
    /\ script = <<>>
    /\ attempts = <<>>
    /\ retry_result = NoOutcome

SetNews(ticker, news_data, start_date, end_date) ==
    /\ pc = "news"
    /\ start_date <= end_date
    /\ Len(set_historical_news(news_cache, ticker, news_data, start_date, end_date))
           <= MaxEntries
    /\ news_cache' = set_historical_news(news_cache, ticker, news_data, start_date, end_date)
    /\ UNCHANGED << pc, weeks, now, feed, initial_capital, portfolio, trades,
                    performance_history, data_cache, cache_csv, slice_csv, csv_cache,
                    price_data, current_date, week_count, results, call, advice,
                    fetch_vars, analysis_vars, event_vars, read_vars, news_request,
                    news_result, retry_vars >>

GetNews(ticker, target_date, days_back) ==
    /\ pc = "news"
    /\ news_request' = [ticker |-> ticker, target_date |-> target_date,
                        days_back |-> days_back]
    /\ news_result' = get_historical_news(news_cache, ticker, target_date, days_back)
    /\ UNCHANGED << pc, weeks, now, feed, initial_capital, portfolio, trades,
                    performance_history, data_cache, cache_csv, slice_csv, csv_cache,
                    price_data, current_date, week_count, results, call, advice,
                    fetch_vars, analysis_vars, event_vars, read_vars, news_cache,
                    retry_vars >>

NewsNext ==
    \/ \E ticker \in Tickers, news_data \in NewsLists, start_date \in NewsDays,
          end_date \in NewsDays : SetNews(ticker, news_data, start_date, end_date)
    \/ \E ticker \in Tickers, target_date \in Day(1)..(Day(4) - 1), days_back \in 1..2 :
          GetNews(ticker, target_date, days_back)

NewsSpec == NewsInit /\ [][NewsNext]_vars


-----------------------------------------------------------------------------
(* src/data/polygon_client.py: retry_with_backoff.  The script says how the *)
(* wrapped function ends on each of its calls, one call more than the       *)
(* wrapper may make; results and errors are known by the number of the call *)
(* that produced them.  The sleeps between the attempts change no state.    *)

MaxRetries == 2         \* largest max_retries

\* lines 31-32: what the except clause catches; requests' Timeout and
\* ConnectionError are RequestExceptions
Retryable == {"RequestException", "RuntimeError"}
Endings == {"return", "ValueError"} \cup Retryable

Scripts ==
    UNION {[max_retries : {m}, endings : [1..(m + 2) -> Endings]] : m \in 0..MaxRetries}

RetryInit ==
    /\ pc = "wrapper"
    /\ Idle
    /\ NothingAnalysed
    /\ last_two = <<>>
    /\ events = NoEvents
    /\ csv_file = <<>>
    /\ read_result = NoRead
    /\ news_cache = <<>>
    /\ news_request = NoRequest
    /\ news_result = <<>>
    /\ script \in Scripts
    /\ attempts = <<>>
    /\ retry_result = NoOutcome

\* line 28: attempt runs over range(max_retries + 1)
attempt == Len(attempts)
InRange == attempt < script.max_retries + 1
ending == script.endings[attempt + 1]

Unchanged ==
    UNCHANGED << weeks, now, feed, initial_capital, portfolio, trades,
                 performance_history, data_cache, cache_csv, slice_csv, csv_cache,
                 price_data, current_date, week_count, results, call, advice,
                 fetch_vars, analysis_vars, event_vars, read_vars, news_vars, script >>

\* line 30: the call returns and the wrapper returns its result
AttemptReturns ==
    /\ pc = "wrapper"
    /\ InRange
    /\ ending = "return"
    /\ attempts' = Append(attempts, ending)
    /\ retry_result' = [raised |-> 0, returned |-> attempt + 1]
    /\ pc' = "returned"
    /\ Unchanged

\* lines 31-46: a caught error before the last attempt: sleep, then go on
AttemptRetries ==
    /\ pc = "wrapper"
    /\ InRange
    /\ ending \in Retryable
    /\ attempt # script.max_retries
    /\ attempts' = Append(attempts, ending)
    /\ UNCHANGED << pc, retry_result >>
    /\ Unchanged

\* mutant: the error of the first attempt is raised
AttemptGivesUp_first_error ==
    /\ pc = "wrapper"
    /\ InRange
    /\ ending \in Retryable
    /\ attempt = script.max_retries
    /\ attempts' = Append(attempts, ending)
    /\ retry_result' = [raised |-> 1, returned |-> 0]
    /\ pc' = "raised"
    /\ Unchanged

\* lines 33-37, 48-50: a caught error on the last attempt is raised again
AttemptGivesUp ==
    /\ pc = "wrapper"
    /\ InRange
    /\ ending \in Retryable
    /\ attempt = script.max_retries
    /\ attempts' = Append(attempts, ending)
    /\ retry_result' = [raised |-> attempt + 1, returned |-> 0]
    /\ pc' = "raised"
    /\ Unchanged

\* an error the except clause does not name leaves the wrapper at once
AttemptPropagates ==
    /\ pc = "wrapper"
    /\ InRange
    /\ ending \notin Retryable \cup {"return"}
    /\ attempts' = Append(attempts, ending)
    /\ retry_result' = [raised |-> attempt + 1, returned |-> 0]
    /\ pc' = "raised"
    /\ Unchanged

RetryNext == AttemptReturns \/ AttemptRetries \/ AttemptGivesUp \/ AttemptPropagates

RetrySpec == RetryInit /\ [][RetryNext]_vars


-----------------------------------------------------------------------------
(* Properties *)

\* the simulated dates of the run
SimulatedDates ==
    {backtest_start_date(now, weeks) + timedelta_weeks(k) : k \in 0..(weeks - 1)}

\* the time of day that every simulated date carries
TimeOfDay == now % TicksPerDay

Before(df, d) == \A i \in 1..Len(df) : df[i].date < d

\* C1: a point-in-time slice holds no bar dated on or after its date d, for
\* every simulated date of the cached series and for every slice file written
C1_NoLookAhead ==
    /\ \A d \in SimulatedDates :
          LET got == get_data_for_date(TRUE, cache_csv, d) IN
          ~got.raised => Before(got.data, d)
    /\ \A key \in DOMAIN slice_csv : Before(slice_csv[key], key + TimeOfDay)

\* a slice was written from a table that also holds bars on and after its date
C1_Witness ==
    \E key \in DOMAIN slice_csv :
        /\ Len(slice_csv[key]) >= min_required_days
        /\ \E i \in 1..Len(cache_csv) : cache_csv[i].date = key + TimeOfDay
        /\ \E i \in 1..Len(cache_csv) : cache_csv[i].date > key + TimeOfDay

\* C2: whenever the crew is invoked for date d, the file registered for the
\* ticker is the slice of d and holds only bars dated before d
C2_CrewReadsSliceOfItsDate ==
    pc = "kickoff" =>
        /\ csv_cache = SlicePath(current_date)
        /\ csv_cache # CachePath
        /\ Before(read_csv(csv_cache), current_date)

\* the crew is invoked in a later period: the full history and an earlier
\* slice are on disk, and the full history holds bars after the date
C2_Witness ==
    /\ pc = "kickoff"
    /\ Cardinality(DOMAIN slice_csv) >= 2
    /\ ~Before(cache_csv, current_date)

\* C3: on a fresh portfolio no sequence of execute_trade calls makes cash or
\* shares negative, and shares stays a whole number
C3_NeverNegative ==
    /\ portfolio.cash >= 0
    /\ portfolio.shares \in Nat

\* C4: BUY with cash > 0 buys floor(cash / price) shares; at least one share:
\* cash drops by their cost to within [0, price), shares rise by them and one
\* BUY trade is logged; no share: nothing changes
C4_BuyBuysFloor ==
    (call.n > 0 /\ call.action = "BUY" /\ call.portfolio.cash > 0) =>
        LET shares_bought == int_truediv[call.portfolio.cash, call.price] IN
        IF shares_bought >= 1
        THEN /\ portfolio.cash = fsub[call.portfolio.cash, fmul[shares_bought, call.price]]
             /\ portfolio.cash >= 0
             /\ portfolio.cash < call.price
             /\ portfolio.shares = call.portfolio.shares + shares_bought
             /\ Len(trades) = Len(call.trades) + 1
             /\ SubSeq(trades, 1, Len(call.trades)) = call.trades
             /\ trades[Len(trades)].action = "BUY"
             /\ trades[Len(trades)].shares = shares_bought
        ELSE /\ portfolio.cash = call.portfolio.cash
             /\ portfolio.shares = call.portfolio.shares
             /\ trades = call.trades

\* C5: SELL with shares > 0 sells them all: cash rises by shares * price,
\* shares becomes 0 and one SELL trade with the whole count is logged; SELL
\* with no shares changes nothing
C5_SellSellsAll ==
    (call.n > 0 /\ call.action = "SELL") =>
        IF call.portfolio.shares > 0
        THEN /\ portfolio.cash =
                    fadd[call.portfolio.cash, fmul[call.portfolio.shares, call.price]]
             /\ portfolio.shares = 0
             /\ Len(trades) = Len(call.trades) + 1
             /\ SubSeq(trades, 1, Len(call.trades)) = call.trades
             /\ trades[Len(trades)].action = "SELL"
             /\ trades[Len(trades)].shares = call.portfolio.shares
        ELSE /\ portfolio.cash = call.portfolio.cash
             /\ portfolio.shares = call.portfolio.shares
             /\ trades = call.trades

\* a SELL of nothing follows a SELL that sold a position
C5_Witness ==
    /\ pc = "trade"
    /\ call.action = "SELL"
    /\ call.portfolio.shares = 0
    /\ Len(trades) = 2
    /\ trades[2].action = "SELL"
    /\ trades[2].shares = trades[1].shares
    /\ portfolio.cash > 0

\* C6: HOLD, and any action other than BUY and SELL, leaves cash, shares and
\* the trade log as they were
C6_OtherActionsChangeNothing ==
    (call.n > 0 /\ call.action \notin {"BUY", "SELL"}) =>
        /\ portfolio.cash = call.portfolio.cash
        /\ portfolio.shares = call.portfolio.shares
        /\ trades = call.trades

\* an unrecognized action arrives while there is cash to spend and stock to sell
C6_Witness ==
    /\ pc = "trade"
    /\ call.action = "buy"
    /\ call.portfolio.cash >= call.price
    /\ call.portfolio.shares > 0

\* C7: after every execute_trade call total_value is cash + shares * price of
\* that call, and every performance record has portfolio_value = cash +
\* shares * price
C7_TotalValueRecomputed ==
    /\ call.n > 0 =>
          portfolio.total_value = fadd[portfolio.cash, fmul[portfolio.shares, call.price]]
    /\ \A i \in 1..Len(performance_history) :
          performance_history[i].portfolio_value =
              fadd[performance_history[i].cash,
                   fmul[performance_history[i].shares, performance_history[i].price]]

\* a held position was revalued at a new price by a call that traded nothing
C7_Witness ==
    /\ call.n >= 2
    /\ call.action \notin {"BUY", "SELL"}
    /\ portfolio.shares > 0
    /\ portfolio.total_value # call.portfolio.total_value
    /\ Len(performance_history) >= 2


\* the record of the latest simulated period
LastRecord == performance_history[Len(performance_history)]

Recognized == {"BUY", "SELL", "HOLD"}

\* shapes of the crew's answer
IsObject(c) == c.json.type = "dict" /\ c.type \in {"str", "dict"}
IsJsonNonObject(c) == c.type = "str" /\ c.json.type = "list"
IsParseFailure(c) == c.type = "str" /\ c.json.type = "Exception"
IsPlainText(c) == (c.type = "str" /\ c.json.type = "JSONDecodeError") \/ c.type = "other"
LacksAction(c) == IsObject(c) /\ "action" \notin DOMAIN c.json.val
HasUnrecognizedAction(c) ==
    IsObject(c) /\ "action" \in DOMAIN c.json.val /\ c.json.val["action"] \notin Recognized
Malformed(c) ==
    IsPlainText(c) \/ IsJsonNonObject(c) \/ IsParseFailure(c) \/ LacksAction(c)
        \/ HasUnrecognizedAction(c)

NoTradeInPeriod ==
    /\ trades = call.trades
    /\ portfolio.cash = call.portfolio.cash
    /\ portfolio.shares = call.portfolio.shares

C9_FailedPeriodIsHold ==
    advice.kind \in {"raised", "no_slice"} =>
        /\ pc \in {"loop", "kickoff", "done"}
        /\ LastRecord.action = "HOLD"
        /\ LastRecord.confidence = "0.0"
        /\ NoTradeInPeriod
        /\ pc = "loop" =>
              current_date = backtest_start_date(now, weeks) + timedelta_weeks(week_count)
        /\ Len(performance_history) = call.n

\* the crew raised while a position was held, and the run went on to return
C9_Witness ==
    /\ advice.kind = "raised"
    /\ portfolio.shares > 0
    /\ Len(trades) = 1
    /\ pc = "done"

\* the iterations counted so far and the records they left
C10_LoopCount ==
    data_cache # {} =>
        /\ week_count <= weeks
        /\ Len(performance_history) <= week_count
        /\ (pc = "loop" /\ ~InLoop) => week_count = weeks
        /\ pc \in {"done", "failed"} => week_count = weeks
        /\ pc = "done" => results.weeks_tested = weeks

\* steps that run_backtest has left at most: two for each week to come
StepsLeft ==
    CASE pc = "start" -> 2 * weeks + 3
      [] pc = "loop" -> 2 * (weeks - week_count) + 2
      [] pc = "kickoff" -> 2 * (weeks - week_count) + 3
      [] OTHER -> 0

\* C10: once the data is cached the weekly loop ends after exactly `weeks`
\* iterations, whatever the crew does, with at most one record per iteration:
\* the count holds in every state, the run can always take a step until it
\* has returned or raised, and every step uses up one of the steps left
C10_LoopCompletes ==
    /\ [](C10_LoopCount /\ StepsLeft >= 0 /\ (pc \in {"done", "failed"} \/ ENABLED Next))
    /\ [][StepsLeft' < StepsLeft]_vars

\* a run of the longest duration returned although a period was skipped and
\* the crew never gave an answer
C10_Witness ==
    /\ pc = "done"
    /\ weeks = MaxWeeks
    /\ results.weeks_tested = weeks
    /\ Len(performance_history) < weeks
    /\ advice.kind = "no_slice"

\* the bars of the cached table that lie in the simulated window [start, end]
BarsInWindow ==
    SelectSeq(price_data, LAMBDA bar : bar.date >= backtest_start_date(now, weeks)
                                       /\ bar.date <= now)

NothingProduced ==
    /\ pc # "done"
    /\ ~results.returned
    /\ trades = <<>>
    /\ performance_history = <<>>

\* C11: when caching the historical data fails, or the simulated window holds
\* no price bar, run_backtest raises, returns no result, executes no trade and
\* appends no performance record
C11_NoDataIsFatal ==
    /\ (pc = "failed" /\ data_cache = {}) => NothingProduced
    /\ (data_cache # {} /\ Len(BarsInWindow) = 0) =>
          NothingProduced

ScenarioAdvice == <<"BUY", "HOLD", "SELL">>

\* the first k periods traded at the scenario's closes on the scenario's advice
ScenarioRan(k) ==
    /\ initial_capital = 10000
    /\ Len(performance_history) >= k
    /\ \A i \in 1..k :
          /\ performance_history[i].price = ScenarioCloses[i]
          /\ performance_history[i].action = ScenarioAdvice[i]
          /\ performance_history[i].confidence = "1.0"

\* C12: with capital 10000, weekly closes 100, 110, 90 and the advice BUY,
\* HOLD, SELL at confidence 1.0, week 1 buys 100 shares and leaves cash 0,
\* week 2 is worth 11000, week 3 sells the 100 shares at 90 and leaves cash
\* 9000 and no shares, exactly two trades are logged and the reported total
\* return is -10 percent
C12_EndToEnd ==
    /\ ScenarioRan(1) =>
          /\ performance_history[1].shares = 100
          /\ performance_history[1].cash = 0
    /\ ScenarioRan(2) =>
          /\ performance_history[2].shares = 100
          /\ performance_history[2].portfolio_value = 11000
    /\ ScenarioRan(3) =>
          /\ performance_history[3].shares = 0
          /\ performance_history[3].cash = 9000
          /\ Len(trades) = 2
          /\ trades[1].action = "BUY" /\ trades[1].shares = 100 /\ trades[1].price = 100
          /\ trades[2].action = "SELL" /\ trades[2].shares = 100 /\ trades[2].price = 90
          /\ trades[2].value = 9000
          /\ pc = "done" =>
                /\ results.total_trades = 2
                /\ results.final_portfolio_value = 9000
                /\ results.total_return_pct = << -10, 1 >>

\* the scenario ran to its end and the result was returned
C12_Witness ==
    /\ pc = "done"
    /\ ScenarioRan(3)
    /\ results.weeks_tested = 3
    /\ results.total_return_pct = << -10, 1 >>

\* the return of putting the whole capital in at the first close of the
\* simulated window and holding to the last close
WindowBenchmark ==
    return_pct[mul[truediv[whole[initial_capital], whole[first_close(BarsInWindow)]],
                   whole[price_data[Len(price_data)].close]],
               initial_capital]

\* C13: the reported buy-and-hold return is that of buying with the whole
\* capital at the first close of the simulated window (not of the 26-week
\* buffer before it) and holding to the last close, and the reported alpha
\* is the total return minus that benchmark return
C13_BenchmarkFromWindow ==
    (pc = "done" /\ Len(BarsInWindow) > 0) =>
        /\ results.buy_hold_return_pct = WindowBenchmark
        /\ results.strategy_vs_buy_hold = sub[results.total_return_pct, WindowBenchmark]

\* C14: the score is mapped with the thresholds included: at least 1.5 gives
\* BUY, at most -1.5 gives SELL, anything strictly between gives HOLD, and
\* never both BUY and SELL
C14_ThresholdsInclusive ==
    pc = "signalled" =>
        /\ signal_result.score >= 3 * half <=> signal_result.signal = "BUY"
        /\ signal_result.score <= -3 * half <=> signal_result.signal = "SELL"
        /\ (-3 * half < signal_result.score /\ signal_result.score < 3 * half)
              <=> signal_result.signal = "HOLD"
        /\ signal_result.signal \in {"BUY", "SELL", "HOLD"}

\* a score of exactly 1.5 gave BUY
C14_Witness ==
    /\ pc = "signalled"
    /\ signal_result.score = 3 * half
    /\ signal_result.signal = "BUY"

\* what the four rules of the claim contribute for a snapshot, in halves of a
\* point, each with the reason it records
Contributions(i) ==
    << [points |-> IF gt(i.ema20, i.ema50) THEN 2 ELSE -2,
        reason |-> IF gt(i.ema20, i.ema50) THEN "EMA20 > EMA50 (uptrend)"
                   ELSE "EMA20 < EMA50 (downtrend)"],
       [points |-> IF gt(i.macd, i.macd_signal) THEN 2 ELSE -2,
        reason |-> IF gt(i.macd, i.macd_signal) THEN "MACD > signal (bullish momentum)"
                   ELSE "MACD < signal (bearish momentum)"],
       [points |-> IF lt(i.rsi, 30) THEN 1 ELSE IF gt(i.rsi, 70) THEN -1 ELSE 0,
        reason |-> IF lt(i.rsi, 30) THEN "RSI < 30 (oversold)" ELSE "RSI > 70 (overbought)"],
       [points |-> IF lt(i.close, i.bb_lower) THEN 1
                   ELSE IF gt(i.close, i.bb_upper) THEN -1 ELSE 0,
        reason |-> IF lt(i.close, i.bb_lower) THEN "Below lower band (mean-reversion up)"
                   ELSE "Above upper band (mean-reversion down)"] >>

\* C15: the score is the sum of +1 or -1 for the EMA trend, +1 or -1 for MACD
\* against its signal, +0.5, -0.5 or 0 for RSI below 30, above 70 or between,
\* and +0.5, -0.5 or 0 for the close below the lower band, above the upper
\* band or inside; the reasons are one per non-zero contribution in that order
C15_ScoreIsSumOfRules ==
    pc = "signalled" =>
        LET cs == Contributions(ind)
            counted == SelectSeq(cs, LAMBDA c : c.points # 0)
        IN  /\ signal_result.indicators = ind
            /\ signal_result.score = cs[1].points + cs[2].points + cs[3].points + cs[4].points
            /\ signal_result.reasons = [k \in 1..Len(counted) |-> counted[k].reason]

\* all four rules contributed: a downtrend with bullish momentum, overbought,
\* below the lower band
C15_Witness ==
    /\ pc = "signalled"
    /\ Len(signal_result.reasons) = 4
    /\ signal_result.score = 0
    /\ signal_result.reasons[3] = "RSI > 70 (overbought)"
    /\ signal_result.reasons[4] = "Below lower band (mean-reversion up)"

BarsBefore(d) == SelectSeq(cache_csv, LAMBDA bar : bar.date < d)

\* data is the last k bars of df, in df's order
IsSuffix(data, df, k) ==
    /\ Len(data) = k
    /\ \A i \in 1..k : data[i] = df[Len(df) - k + i]

Ascending(df) == \A i \in 1..(Len(df) - 1) : df[i].date < df[i + 1].date

\* C17: with n bars dated strictly before the date, the slice is exactly the
\* last min(n, 180) of them, in ascending date order, when n >= 50, and the
\* call fails when n < 50; the slice file the crew is given is that slice
C17_SliceIsTrailingWindow ==
    /\ \A d \in SimulatedDates :
          LET n == Len(BarsBefore(d))
              got == get_data_for_date(TRUE, cache_csv, d)
          IN  IF n >= 50
              THEN /\ ~got.raised
                   /\ IsSuffix(got.data, BarsBefore(d), IF n < 180 THEN n ELSE 180)
                   /\ Ascending(got.data)
              ELSE got.raised
    /\ pc = "kickoff" =>
          LET n == Len(BarsBefore(current_date)) IN
          /\ n >= 50
          /\ IsSuffix(read_csv(csv_cache), BarsBefore(current_date),
                      IF n < 180 THEN n ELSE 180)

\* the crew is given 180 bars out of more than 180 dated before the date
C17_Witness ==
    /\ pc = "kickoff"
    /\ Len(BarsBefore(current_date)) > 180
    /\ Len(read_csv(csv_cache)) = 180
    /\ read_csv(csv_cache)[180] = BarsBefore(current_date)[Len(BarsBefore(current_date))]

\* exactly 50 bars are dated before the date and all of them are the slice
C17_WitnessAtMinimum ==
    /\ pc = "kickoff"
    /\ Len(BarsBefore(current_date)) = 50
    /\ Len(read_csv(csv_cache)) = 50

\* 49 bars are dated before the date and the period goes without a slice
C17_WitnessBelowMinimum ==
    /\ advice.kind = "no_slice"
    /\ week_count = 1
    /\ Len(BarsBefore(current_date - timedelta_weeks(1))) = 49

\* C18: a run sends exactly one request for the price history and exactly
\* one for the news, both before the first simulated period; none is sent in
\* the weekly loop, and calling cache_historical_data again with the same
\* ticker and date range sends none
C18_FetchedOnce ==
    /\ pc = "start" => (ohlcv_fetches = 0 /\ news_fetches = 0)
    /\ data_cache # {} => (ohlcv_fetches = 1 /\ news_fetches = 1)
    /\ (pc = "loop" /\ week_count = 0) => performance_history = <<>>
    /\ pc \in {"done", "recached"} =>
          (results.weeks_tested = weeks /\ ohlcv_fetches = 1 /\ news_fetches = 1)

\* the longest run traded every week and the data was asked for again
C18_Witness ==
    /\ pc = "recached"
    /\ weeks = MaxWeeks
    /\ Len(performance_history) = weeks
    /\ ohlcv_fetches = 1
    /\ news_fetches = 1

RecordsInDateOrder ==
    \A i \in 1..(Len(performance_history) - 1) :
        performance_history[i].date <= performance_history[i + 1].date

\* a step that begins a simulated period: the previous one is finished, and
\* the period's date is as many weeks after the start as periods came before
BeginsPeriodInOrder ==
    week_count' > week_count =>
        /\ pc = "loop"
        /\ week_count' = week_count + 1
        /\ current_date = backtest_start_date(now, weeks) + week_count * 7 * TicksPerDay

\* a step of the loop leaves the simulated date or moves it on by one week
MovesOnByAWeek ==
    pc \in {"loop", "kickoff"} =>
        \/ current_date' = current_date
        \/ current_date' = current_date + 7 * TicksPerDay

\* C19: the simulated periods are processed one at a time, each dated exactly
\* one week after the one before, and the dates of the performance records
\* never decrease along the history
C19_PeriodsInWeeklyOrder ==
    /\ []RecordsInDateOrder
    /\ [][BeginsPeriodInOrder /\ MovesOnByAWeek]_vars

\* the longest run left a record for each period, the later one dated later
C19_Witness ==
    /\ pc = "done"
    /\ weeks = MaxWeeks
    /\ Len(performance_history) = weeks
    /\ performance_history[1].date < performance_history[weeks].date

\* the call before the latest one was a BUY at the latest call's price that
\* bought shares
BoughtJustBefore ==
    /\ call.n >= 2
    /\ Len(call.trades) > 0
    /\ call.trades[Len(call.trades)].action = "BUY"
    /\ call.trades[Len(call.trades)].date = call.n - 1
    /\ call.trades[Len(call.trades)].price = call.price

\* C20: a BUY right after a BUY at the same price changes nothing: cash,
\* shares and the trade log stay as the first BUY left them
C20_SecondBuyIsNoOp ==
    (call.action = "BUY" /\ BoughtJustBefore) =>
        /\ portfolio.cash = call.portfolio.cash
        /\ portfolio.shares = call.portfolio.shares
        /\ trades = call.trades

\* a period begins for which the table holds no bar dated at or before the
\* simulated date
NoBarYet ==
    /\ pc = "loop"
    /\ InLoop
    /\ \A i \in 1..Len(price_data) : price_data[i].date > current_date

\* C21: in a period with no bar dated at or before the simulated date the
\* Advisor is not invoked, cash, shares, the trade log and the performance
\* history stay as they are, and the loop moves on by one week
C21_PeriodWithoutBarIsSkipped ==
    [][NoBarYet =>
          /\ pc' = "loop"
          /\ advice' = advice
          /\ portfolio' = portfolio
          /\ trades' = trades
          /\ performance_history' = performance_history
          /\ current_date' = current_date + 7 * TicksPerDay
          /\ week_count' = week_count + 1]_vars

\* the first period found no bar and left nothing, the second left a record
C21_Witness ==
    /\ pc = "done"
    /\ results.weeks_tested = 2
    /\ Len(performance_history) = 1
    /\ performance_history[1].date > backtest_start_date(now, weeks)
    /\ \A i \in 1..Len(price_data) : price_data[i].date > backtest_start_date(now, weeks)

\* a period begins that has a bar to trade at but fewer than 50 bars dated
\* before its date
TooFewBars ==
    /\ pc = "loop"
    /\ InLoop
    /\ \E i \in 1..Len(price_data) : price_data[i].date <= current_date
    /\ Len(BarsBefore(current_date)) < 50

\* C22 as stated: a period whose lookup fails for insufficient history is
\* passed over like a period without a bar: no Advisor call, no trade and no
\* performance record
C22_TooFewBarsIsSkipped ==
    [][TooFewBars =>
          /\ pc' = "loop"
          /\ advice'.kind # "returned"
          /\ trades' = trades
          /\ performance_history' = performance_history]_vars

\* C22: a period whose lookup fails for insufficient history gets no Advisor
\* call and no trade, and one performance record is appended for it, with
\* action HOLD, confidence 0.0 and the portfolio as it was
C22_TooFewBarsIsHold ==
    [][TooFewBars =>
          /\ pc' = "loop"
          /\ advice'.kind = "no_slice"
          /\ trades' = trades
          /\ portfolio'.cash = portfolio.cash
          /\ portfolio'.shares = portfolio.shares
          /\ Len(performance_history') = Len(performance_history) + 1
          /\ SubSeq(performance_history', 1, Len(performance_history)) = performance_history
          /\ performance_history'[Len(performance_history')].action = "HOLD"
          /\ performance_history'[Len(performance_history')].confidence = "0.0"
          /\ performance_history'[Len(performance_history')].cash = portfolio.cash
          /\ performance_history'[Len(performance_history')].shares = portfolio.shares
          /\ current_date' = current_date + 7 * TicksPerDay]_vars

\* the first period had 49 bars before its date and left a HOLD record; the
\* second had enough and the crew was asked
C22_Witness ==
    /\ pc = "kickoff"
    /\ week_count = 2
    /\ Len(performance_history) = 1
    /\ performance_history[1].action = "HOLD"
    /\ performance_history[1].confidence = "0.0"
    /\ Len(BarsBefore(backtest_start_date(now, weeks))) = 49

-----------------------------------------------------------------------------
(* C23 *)

Fired(text) == \E k \in DOMAIN events.events : events.events[k] = text

Previous == last_two[Len(last_two) - 1]
Latest == last_two[Len(last_two)]

\* C23: each cross is decided by comparing a line with its counterpart on the
\* same bar, on the previous and on the latest bar: a bullish (bearish) EMA or
\* MACD cross is reported exactly when the first line is strictly below
\* (above) the second on the previous bar and strictly above (below) it on
\* the latest bar, so the two crosses of one pair are never reported together
C23_CrossesCompareSameBar ==
    (pc = "events" /\ ~events.raised) =>
        /\ Fired("Bullish EMA20/50 golden cross today")
             <=> (Previous.EMA20 < Previous.EMA50 /\ Latest.EMA20 > Latest.EMA50)
        /\ Fired("Bearish EMA20/50 death cross today")
             <=> (Previous.EMA20 > Previous.EMA50 /\ Latest.EMA20 < Latest.EMA50)
        /\ Fired("Bullish MACD cross above signal")
             <=> (Previous.MACD < Previous.MACD_SIG /\ Latest.MACD > Latest.MACD_SIG)
        /\ Fired("Bearish MACD cross below signal")
             <=> (Previous.MACD > Previous.MACD_SIG /\ Latest.MACD < Latest.MACD_SIG)
        /\ ~(Fired("Bullish EMA20/50 golden cross today")
               /\ Fired("Bearish EMA20/50 death cross today"))
        /\ ~(Fired("Bullish MACD cross above signal")
               /\ Fired("Bearish MACD cross below signal"))

-----------------------------------------------------------------------------
(* C24 *)

\* two rows of the table on disk carry the same date
SameDateTwice ==
    \E i \in DOMAIN csv_file.rows, j \in DOMAIN csv_file.rows :
        i < j /\ csv_file.rows[i].Date # NaT /\ csv_file.rows[i].Date = csv_file.rows[j].Date

\* C24: loading a price table in which two rows carry the same date fails, so
\* a series that was loaded has strictly increasing dates
C24_DuplicateDatesRejected ==
    pc = "read" =>
        /\ (csv_file.exists /\ SameDateTwice) => read_result.raised # ""
        /\ read_result.raised = "" =>
             \A k \in 1..(Len(read_result.df) - 1) :
                 read_result.df[k].Date < read_result.df[k + 1].Date

-----------------------------------------------------------------------------
(* C25 *)

\* cash + shares * price as the program computes it
value_at(pf, price) == fadd[pf.cash, fmul[pf.shares, price]]

\* C25: execute_trade is value-neutral at the execution price: cash + shares *
\* price is the same before and after the call, whatever the action
C25_ValueNeutral ==
    call.n > 0 => value_at(portfolio, call.price) = value_at(call.portfolio, call.price)

-----------------------------------------------------------------------------
(* C26 *)

\* the position of the last SELL before trade i, 0 if there is none
PreviousSell(i) ==
    LET sells == {k \in 1..(i - 1) : trades[k].action = "SELL"}
    IN  IF sells = {} THEN 0 ELSE CHOOSE k \in sells : \A other \in sells : other <= k

\* the shares of the trades i..j
SharesOf(i, j) ==
    LET total[k \in (i - 1)..j] == IF k < i THEN 0 ELSE total[k - 1] + trades[k].shares
    IN  total[j]

\* C26: every recorded trade has at least one share and value = shares *
\* price; a SELL sells the shares of the BUYs recorded since the previous
\* SELL (or since the start), so the log never starts with a SELL and never
\* holds two SELLs in a row
C26_TradeLogShape ==
    /\ \A i \in 1..Len(trades) :
          /\ trades[i].action \in {"BUY", "SELL"}
          /\ trades[i].shares >= 1
          /\ trades[i].value = fmul[trades[i].shares, trades[i].price]
          /\ trades[i].action = "SELL" =>
                trades[i].shares = SharesOf(PreviousSell(i) + 1, i - 1)
    /\ trades # <<>> => trades[1].action = "BUY"
    /\ \A i \in 1..(Len(trades) - 1) :
          ~(trades[i].action = "SELL" /\ trades[i + 1].action = "SELL")

\* two BUYs in a row, then a SELL of the shares of both, then a BUY again
C26_Witness ==
    /\ Len(trades) >= 4
    /\ trades[1].action = "BUY"
    /\ trades[2].action = "BUY"
    /\ trades[3].action = "SELL"
    /\ trades[3].shares = trades[1].shares + trades[2].shares
    /\ trades[4].action = "BUY"

-----------------------------------------------------------------------------
(* C27 *)

Uptrend == gt(ind.ema20, ind.ema50)
BullishMomentum == gt(ind.macd, ind.macd_signal)

\* C27: the signal is BUY only if EMA20 > EMA50 and MACD > its signal line,
\* SELL only if neither holds, and HOLD whenever the two trend rules disagree,
\* whatever RSI and the bands say; the score, counted in halves, lies within
\* [-3, 3]
C27_TrendRulesDecide ==
    pc = "signalled" =>
        /\ signal_result.signal = "BUY" => (Uptrend /\ BullishMomentum)
        /\ signal_result.signal = "SELL" => (~Uptrend /\ ~BullishMomentum)
        /\ (Uptrend # BullishMomentum) => signal_result.signal = "HOLD"
        /\ signal_result.score \in (-3 * one)..(3 * one)

\* the trend rules disagree while RSI and the bands both push towards BUY
C27_Witness ==
    /\ pc = "signalled"
    /\ ~Uptrend
    /\ BullishMomentum
    /\ lt(ind.rsi, 30)
    /\ lt(ind.close, ind.bb_lower)
    /\ signal_result.score = 2 * half
    /\ signal_result.signal = "HOLD"

-----------------------------------------------------------------------------
(* C28, C29 *)

Asked == news_request # NoRequest

\* C28: get_historical_news returns only articles dated within
\* [target_date - days_back, target_date], whether an entry with the exact
\* key or an overlapping entry serves the request; never an article dated
\* after target_date
C28_NewsWithinWindow ==
    Asked =>
        \A k \in DOMAIN news_result :
            /\ article_date(news_result[k]) # NoTime
            /\ strftime(news_request.target_date - news_request.days_back * TicksPerDay)
                   <= article_date(news_result[k])
            /\ article_date(news_result[k]) <= strftime(news_request.target_date)

\* C29: get_historical_news(T, ...) returns only articles cached under
\* ticker T, never those of another ticker, not even one whose symbol
\* contains T
C29_NewsOfTheTicker ==
    Asked =>
        \A k \in DOMAIN news_result :
            \E e \in DOMAIN news_cache :
                /\ news_cache[e].ticker = news_request.ticker
                /\ \E a \in DOMAIN news_cache[e].news : news_cache[e].news[a] = news_result[k]

-----------------------------------------------------------------------------
(* C30 *)

\* the calls made so far ended as the script says
CallsFollowScript ==
    \A k \in 1..Len(attempts) : attempts[k] = script.endings[k]

\* where the wrapper stands, how many calls it made and what it gave back
RetryOutcome ==
    pc \in {"wrapper", "returned", "raised"} =>
        /\ Len(attempts) <= script.max_retries + 1
        /\ CallsFollowScript
        /\ \A k \in 1..(Len(attempts) - 1) : attempts[k] \in Retryable
        /\ pc = "wrapper" =>
              /\ retry_result = NoOutcome
              /\ \A k \in 1..Len(attempts) : attempts[k] \in Retryable
              /\ Len(attempts) < script.max_retries + 1
        /\ pc = "returned" =>
              /\ attempts[Len(attempts)] = "return"
              /\ retry_result = [raised |-> 0, returned |-> Len(attempts)]
        /\ pc = "raised" =>
              /\ retry_result = [raised |-> Len(attempts), returned |-> 0]
              /\ \/ attempts[Len(attempts)] = "ValueError"
                 \/ /\ attempts[Len(attempts)] \in Retryable
                    /\ Len(attempts) = script.max_retries + 1

\* once the wrapper has returned or raised, the function is not called again
CallsNoMore == pc \in {"returned", "raised"} => attempts' = attempts

\* C30: the wrapped function is called at most max_retries + 1 times; the
\* wrapper returns the result of the first call that succeeds and calls no
\* more, raises the last error after max_retries + 1 retryable failures in a
\* row, and lets any other error out on its first occurrence without a retry
C30_RetryContract == []RetryOutcome /\ [][CallsNoMore]_vars

\* two retries, then a result
C30_Witness ==
    /\ pc = "returned"
    /\ script.max_retries = 2
    /\ attempts = << "RuntimeError", "RequestException", "return" >>

\* every attempt failed and the error of the last one was raised
C30_WitnessGivesUp ==
    /\ pc = "raised"
    /\ Len(attempts) = script.max_retries + 1
    /\ Len(attempts) >= 2
    /\ retry_result.raised = Len(attempts)
    /\ \A k \in 1..Len(attempts) : attempts[k] \in Retryable

====
